---------------------------- MODULE Spec2Model ----------------------------
(***************************************************************************)
(* A model of the Telegram / AI-completion gateway.                        *)
(*                                                                         *)
(*   - the streaming relay: TelegramBot.handle_message consuming the       *)
(*     async generator generate_ai_response and publishing to the chat     *)
(*     (src/telegram_bot.py, src/ai_service.py);                           *)
(*   - the session lifecycle: setup_application, shutdown, setup_webhook   *)
(*     and the HTTP endpoints that drive them (src/telegram_bot.py,        *)
(*     src/main.py).                                                       *)
(*                                                                         *)
(* Texts are strings; Len and \o are those of Python's len and +.         *)
(* Every await of the code is a boundary between two actions.             *)
(***************************************************************************)
EXTENDS Naturals, Sequences, FiniteSets, TLC

(***************************************************************************)
(* Bounds of the model.                                                    *)
(***************************************************************************)
\* content-bearing chunks the provider may stream during one relay
MaxChunks == 3
\* downstream calls of one relay that may fail (specification SpecRelay)
MaxDownFaults == 2
\* upstream failures of one relay under SpecRelay (under SpecGen only the
\* generator's own retry ceiling ends them)
MaxUpFaults == 1
\* content-bearing chunks the provider may stream during one relay under SpecGen
MaxChunksGen == 2

\* chunks and downstream failures of each of two concurrent relays (SpecDuo)
MaxChunksDuo == 1
MaxDownFaultsDuo == 1

\* requests received after startup, and chunks streamed to a relay, when
\* webhook requests run their relays (specification SpecHook)
MaxHookCalls == 2
MaxChunksHook == 1

\* requests the HTTP server receives after startup (specification Spec)
MaxCalls == 2
\* direct calls of the TelegramBot methods (specification SpecApi)
MaxApiCalls == 4

(***************************************************************************)
(* Program constants.                                                      *)
(***************************************************************************)
max_retries == 3
InitialRetryDelay == 1
PublishModulus == 20
PaceMs == 500
NetCooldownMs == 1000

ThinkingText == "Thinking..."
NoResponseText == "I couldn't generate a response. Please try again."
ErrorText == "Sorry, an error occurred while processing your request."
TimeoutNotice == "\n[Connection timeout. Retrying...]\n"
ConnNotice == "\n[Connection issue. Retrying...]\n"
ExhaustedText == "\nSorry, I'm having trouble connecting to my AI services right now. Please try again in a moment."
ApiErrorPrefix == "\nSorry, there was an error with the AI service: "
OtherErrorPrefix == "\nSorry, an unexpected error occurred: "
\* str(e) of a provider error: one representative message
ErrStr == "bad request"

\* the delta.content values a provider chunk may carry
Chunks == {"Hi", " there", "abcdefghijklmnopqrst"}
\* the retry_after hints (seconds) a RetryAfter may carry
RetryAfterVals == {2, 5}
Relays == {1, 2}
None == 0

VARIABLES
    pc,                  \* relay -> position of handle_message
    full_response,       \* relay -> accumulated text
    processing_message,  \* relay -> handle of the placeholder message, None before the send
    wait,                \* relay -> e.retry_after of the RetryAfter being handled
    gpc,                 \* relay -> position of its generate_ai_response generator
    retry_count,         \* relay -> generator's retry_count
    retry_delay,         \* relay -> generator's retry_delay (seconds)
    messages,            \* the chat: handle -> text the user sees
    log,                 \* relay -> what the relay and its generator did, in order
    chunksLeft,          \* relay -> chunks the provider may still stream
    downFaults,          \* relay -> downstream failures the platform may still raise
    upFaults             \* relay -> upstream failures the provider may still raise

relayVars == <<pc, full_response, processing_message, wait, gpc, retry_count,
               retry_delay, messages, log, chunksLeft, downFaults, upFaults>>

VARIABLES
    application,     \* bot.application: None, or the Application object (its number)
    shutdown_lock,   \* bot._shutdown_lock: the asyncio.Lock object (its number)
    locks,           \* lock object -> [holder, waiters]
    built,           \* Application objects built so far
    appInit,         \* the Application objects that are initialized
    webhookSet,      \* whether the platform holds a webhook registration
    bot_connected,   \* main.bot_connected
    settings,        \* [is_production, webhook_url]: the configuration of the process
    cur,             \* the task that runs (it has not reached an await), or None
    task,            \* task -> its position and locals
    processed,       \* updates handed to application.process_update
    started,         \* whether startup_event has been called
    opsLeft          \* calls the environment may still make

lifeVars == <<application, shutdown_lock, locks, built, appInit, webhookSet,
              bot_connected, settings, cur, task, processed, started, opsLeft>>

vars == <<relayVars, lifeVars>>

(***************************************************************************)
(* The log: one entry per request, fragment, downstream call and sleep.    *)
(***************************************************************************)
Entry(kind, at, text, handle, res, ms) ==
    [kind |-> kind, at |-> at, text |-> text, handle |-> handle, res |-> res,
     ms |-> ms, after |-> 0]

\* a downstream call with outcome o (after: the retry_after its RetryAfter carried)
CallEntry(kind, at, text, handle, o) ==
    [kind |-> kind, at |-> at, text |-> text, handle |-> handle, res |-> o.kind,
     ms |-> 0, after |-> o.after]

Logged(r, e) == log' = [log EXCEPT ![r] = Append(@, e)]

(***************************************************************************)
(* The downstream platform: a call succeeds, or fails as RetryAfter,       *)
(* TimedOut/NetworkError, or any other exception.                          *)
(***************************************************************************)
OkOutcome == [kind |-> "ok", after |-> 0]

\* the outcomes of a downstream call whose RetryAfter may carry the given hints
DownOutcomesWith(r, hints) ==
    {OkOutcome} \cup
    (IF downFaults[r] > 0
        THEN {[kind |-> "net", after |-> 0], [kind |-> "fatal", after |-> 0]}
             \cup {[kind |-> "rate", after |-> d] : d \in hints}
        ELSE {})

\* a call whose handler reads e.retry_after: every hint is a different outcome
DownOutcomesHinted(r) == DownOutcomesWith(r, RetryAfterVals)

\* a call whose handler never reads e.retry_after: one hint stands for all
DownOutcomes(r) == DownOutcomesWith(r, {CHOOSE d \in RetryAfterVals : TRUE})

Charge(r, o) ==
    downFaults' = [downFaults EXCEPT ![r] = IF o.kind = "ok" THEN @ ELSE @ - 1]

\* message.reply_text(text): a new message in the chat, whose handle is returned
SendNew(text, o) == IF o.kind = "ok" THEN Append(messages, text) ELSE messages

\* an edit that goes to the message bound last, as if the placeholder were
\* kept in an attribute shared by all the calls of handle_message
EditMsgLatest(h, text, o) ==
    IF o.kind = "ok" THEN [messages EXCEPT ![Len(messages)] = text] ELSE messages

\* message.edit_text(text) on handle h
EditMsg(h, text, o) ==
    IF o.kind = "ok" THEN [messages EXCEPT ![h] = text] ELSE messages


(***************************************************************************)
(* generate_ai_response (src/ai_service.py).                               *)
(***************************************************************************)
\* a loop that never tests the retry count (while True)
LoopTopAlways(rc) == "attempt"

\* the while condition, evaluated each time control reaches the top of the loop
LoopTop(rc) == IF rc <= max_retries THEN "attempt" ELSE "finished"

\* a ceiling test that is off by one: gives up one failure early
CanRetryStrict(rc) == rc < max_retries

\* after retry_count += 1: retry (notice, sleep, loop) or give up
CanRetry(rc) == rc <= max_retries

\* except clauses for APIError and Exception that lack their `break`: after
\* the fragment, control goes back to the loop test
OnUpstreamErrorNoBreak(kind, rc) ==
    CASE kind \in {"timeout", "conn"} ->
            IF CanRetry(rc + 1)
                THEN [rc |-> rc + 1, gpc |-> "backoff",
                      text |-> IF kind = "timeout" THEN TimeoutNotice ELSE ConnNotice]
                ELSE [rc |-> rc + 1, gpc |-> "exhausted", text |-> ExhaustedText]
      [] kind = "api" ->
            [rc |-> rc, gpc |-> "exhausted", text |-> ApiErrorPrefix \o ErrStr]
      [] OTHER ->
            [rc |-> rc, gpc |-> "exhausted", text |-> OtherErrorPrefix \o ErrStr]

\* what an exception of the given kind makes the generator yield, with the
\* retry_count it leaves and the place the generator is suspended at
OnUpstreamError(kind, rc) ==
    CASE kind \in {"timeout", "conn"} ->
            IF CanRetry(rc + 1)
                THEN [rc |-> rc + 1, gpc |-> "backoff",
                      text |-> IF kind = "timeout" THEN TimeoutNotice ELSE ConnNotice]
                ELSE [rc |-> rc + 1, gpc |-> "exhausted", text |-> ExhaustedText]
      [] kind = "api" ->
            [rc |-> rc, gpc |-> "broken", text |-> ApiErrorPrefix \o ErrStr]
      [] OTHER ->
            [rc |-> rc, gpc |-> "broken", text |-> OtherErrorPrefix \o ErrStr]

UpErrors(r) == IF upFaults[r] > 0 THEN {"timeout", "conn", "api", "other"} ELSE {}

(***************************************************************************)
(* handle_message (src/telegram_bot.py), the consumer of the generator.    *)
(***************************************************************************)
\* an accumulation that puts the newest chunk first
AccumulatePrepended(text, chunk) == chunk \o text

\* full_response += response_chunk
Accumulate(text, chunk) == text \o chunk

\* the throttle: publish when the accumulated length is a multiple of 20
ShouldPublish(text) == Len(text) % PublishModulus = 0

\* a rate-limit wait that ignores the platform's hint
RateLimitWaitFixed(after) == 1000

\* asyncio.sleep(e.retry_after), in milliseconds
RateLimitWaitMs(after) == after * 1000

\* a flush that does not test for the empty text
FlushTextUnchecked(text) == text

\* the text the final flush edits into the placeholder message
FlushText(text) == IF text # "" THEN text ELSE NoResponseText

\* one iteration of `async for`: the generator yielded `chunk`
Deliver(r, chunk, at) ==
    LET text == Accumulate(full_response[r], chunk) IN
    /\ full_response' = [full_response EXCEPT ![r] = text]
    /\ pc' = [pc EXCEPT ![r] = IF ShouldPublish(text) THEN "publish" ELSE "stream_next"]
    /\ Logged(r, Entry("fragment", at, chunk, None, "", 0))

\* the generator returned: the loop ends and the final flush follows
EndOfStream(r) ==
    /\ gpc' = [gpc EXCEPT ![r] = "finished"]
    /\ pc' = [pc EXCEPT ![r] = "flush"]

\* lines 42-52: the early return, then the placeholder message
HandleMessage(r) ==
    /\ pc[r] = "start"
    /\ \E hasText \in BOOLEAN :
        IF ~hasText
            THEN /\ pc' = [pc EXCEPT ![r] = "done"]
                 /\ UNCHANGED <<messages, processing_message, log, downFaults>>
            ELSE \E o \in DownOutcomes(r) :
                 /\ messages' = SendNew(ThinkingText, o)
                 /\ processing_message' =
                        [processing_message EXCEPT ![r] =
                            IF o.kind = "ok" THEN Len(messages') ELSE None]
                 /\ pc' = [pc EXCEPT ![r] = IF o.kind = "ok" THEN "stream_next" ELSE "raised"]
                 /\ Logged(r, CallEntry("reply", "start", ThinkingText,
                                    processing_message'[r], o))
                 /\ Charge(r, o)
    /\ UNCHANGED lifeVars
    /\ UNCHANGED <<full_response, wait, gpc, retry_count, retry_delay, chunksLeft, upFaults>>

\* ai_service lines 37-45 and the except clauses: one request attempt
GenRequest(r) ==
    /\ pc[r] = "stream_next" /\ gpc[r] = "attempt"
    /\ \/ /\ gpc' = [gpc EXCEPT ![r] = "stream"]
          /\ Logged(r, Entry("request", "attempt", "", None, "open", 0))
          /\ UNCHANGED <<pc, full_response, retry_count, upFaults>>
       \/ \E kind \in UpErrors(r) :
            LET e == OnUpstreamError(kind, retry_count[r])
                text == Accumulate(full_response[r], e.text) IN
            /\ gpc' = [gpc EXCEPT ![r] = e.gpc]
            /\ retry_count' = [retry_count EXCEPT ![r] = e.rc]
            /\ upFaults' = [upFaults EXCEPT ![r] = @ - 1]
            /\ full_response' = [full_response EXCEPT ![r] = text]
            /\ pc' = [pc EXCEPT ![r] =
                        IF ShouldPublish(text) THEN "publish" ELSE "stream_next"]
            /\ log' = [log EXCEPT ![r] =
                        @ \o <<Entry("request", "attempt", "", None, kind, 0),
                               Entry("fragment", e.gpc, e.text, None, "", 0)>>]
    /\ UNCHANGED lifeVars
    /\ UNCHANGED <<processing_message, wait, retry_delay, messages, chunksLeft, downFaults>>

\* ai_service lines 48-51: a chunk with content is yielded
GenChunk(r) ==
    /\ pc[r] = "stream_next" /\ gpc[r] = "stream"
    /\ chunksLeft[r] > 0
    /\ \E c \in Chunks : Deliver(r, c, "stream")
    /\ chunksLeft' = [chunksLeft EXCEPT ![r] = @ - 1]
    /\ UNCHANGED lifeVars
    /\ UNCHANGED <<processing_message, wait, gpc, retry_count, retry_delay,
                   messages, downFaults, upFaults>>

\* ai_service line 49: a chunk without choices or content is skipped
GenEmptyChunk(r) ==
    /\ pc[r] = "stream_next" /\ gpc[r] = "stream"
    /\ UNCHANGED vars

\* ai_service line 54: the stream ended, the generator returns
GenStreamEnd(r) ==
    /\ pc[r] = "stream_next" /\ gpc[r] = "stream"
    /\ EndOfStream(r)
    /\ UNCHANGED lifeVars
    /\ UNCHANGED <<full_response, processing_message, wait, retry_count, retry_delay,
                   messages, log, chunksLeft, downFaults, upFaults>>

\* a failed attempt whose fragments are retracted: the text restarts at the notice
GenStreamErrorRetract(r) ==
    /\ pc[r] = "stream_next" /\ gpc[r] = "stream"
    /\ \E kind \in UpErrors(r) :
        LET e == OnUpstreamError(kind, retry_count[r]) IN
        /\ gpc' = [gpc EXCEPT ![r] = e.gpc]
        /\ retry_count' = [retry_count EXCEPT ![r] = e.rc]
        /\ upFaults' = [upFaults EXCEPT ![r] = @ - 1]
        /\ full_response' = [full_response EXCEPT ![r] = e.text]
        /\ pc' = [pc EXCEPT ![r] =
                    IF ShouldPublish(e.text) THEN "publish" ELSE "stream_next"]
        /\ log' = [log EXCEPT ![r] =
                    @ \o <<Entry("error", "stream", "", None, kind, 0),
                           Entry("fragment", e.gpc, e.text, None, "", 0)>>]
    /\ UNCHANGED lifeVars
    /\ UNCHANGED <<processing_message, wait, retry_delay, messages, chunksLeft, downFaults>>

\* an exception raised while iterating the stream (ai_service lines 48, 56-86)
GenStreamError(r) ==
    /\ pc[r] = "stream_next" /\ gpc[r] = "stream"
    /\ \E kind \in UpErrors(r) :
        LET e == OnUpstreamError(kind, retry_count[r]) IN
        /\ gpc' = [gpc EXCEPT ![r] = e.gpc]
        /\ retry_count' = [retry_count EXCEPT ![r] = e.rc]
        /\ upFaults' = [upFaults EXCEPT ![r] = @ - 1]
        /\ LET text == Accumulate(full_response[r], e.text) IN
           /\ full_response' = [full_response EXCEPT ![r] = text]
           /\ pc' = [pc EXCEPT ![r] =
                        IF ShouldPublish(text) THEN "publish" ELSE "stream_next"]
        /\ log' = [log EXCEPT ![r] =
                    @ \o <<Entry("error", "stream", "", None, kind, 0),
                           Entry("fragment", e.gpc, e.text, None, "", 0)>>]
    /\ UNCHANGED lifeVars
    /\ UNCHANGED <<processing_message, wait, retry_delay, messages, chunksLeft, downFaults>>

\* a backoff that grows by one second instead of doubling
GenBackoffLinear(r) ==
    /\ pc[r] = "stream_next" /\ gpc[r] = "backoff"
    /\ Logged(r, Entry("sleep", "backoff", "", None, "", retry_delay[r] * 1000))
    /\ retry_delay' = [retry_delay EXCEPT ![r] = @ + 1]
    /\ IF LoopTop(retry_count[r]) = "attempt"
          THEN /\ gpc' = [gpc EXCEPT ![r] = "attempt"]
               /\ UNCHANGED pc
          ELSE EndOfStream(r)
    /\ UNCHANGED lifeVars
    /\ UNCHANGED <<full_response, processing_message, wait, retry_count, messages,
                   chunksLeft, downFaults, upFaults>>

\* ai_service lines 61-62 / 72-73: resumed after the notice, sleep and double
GenBackoff(r) ==
    /\ pc[r] = "stream_next" /\ gpc[r] = "backoff"
    /\ Logged(r, Entry("sleep", "backoff", "", None, "", retry_delay[r] * 1000))
    /\ retry_delay' = [retry_delay EXCEPT ![r] = @ * 2]
    /\ IF LoopTop(retry_count[r]) = "attempt"
          THEN /\ gpc' = [gpc EXCEPT ![r] = "attempt"]
               /\ UNCHANGED pc
          ELSE EndOfStream(r)
    /\ UNCHANGED lifeVars
    /\ UNCHANGED <<full_response, processing_message, wait, retry_count, messages,
                   chunksLeft, downFaults, upFaults>>

\* resumed after the final failure fragment (loop test) or after a break
GenExit(r) ==
    /\ pc[r] = "stream_next" /\ gpc[r] \in {"exhausted", "broken"}
    /\ IF gpc[r] = "exhausted" /\ LoopTop(retry_count[r]) = "attempt"
          THEN /\ gpc' = [gpc EXCEPT ![r] = "attempt"]
               /\ UNCHANGED pc
          ELSE EndOfStream(r)
    /\ UNCHANGED lifeVars
    /\ UNCHANGED <<full_response, processing_message, wait, retry_count, retry_delay,
                   messages, log, chunksLeft, downFaults, upFaults>>

(***************************************************************************)
(* handle_message: the periodic publish, lines 64-78.                      *)
(***************************************************************************)
\* line 66: edit_text(full_response) and what each except clause does next
Publish(r) ==
    /\ pc[r] = "publish"
    /\ \E o \in DownOutcomesHinted(r) :
        /\ messages' = EditMsg(processing_message[r], full_response[r], o)
        /\ Logged(r, CallEntry("edit", "publish", full_response[r],
                           processing_message[r], o))
        /\ Charge(r, o)
        /\ wait' = [wait EXCEPT ![r] = o.after]
        /\ pc' = [pc EXCEPT ![r] =
                    CASE o.kind = "ok" -> "pace"
                      [] o.kind = "rate" -> "rl_sleep"
                      [] o.kind = "net" -> "net_sleep"
                      [] OTHER -> "stream_next"]
    /\ UNCHANGED lifeVars
    /\ UNCHANGED <<full_response, processing_message, gpc, retry_count, retry_delay,
                   chunksLeft, upFaults>>

\* line 67: asyncio.sleep(0.5) after a successful edit
Pace(r) ==
    /\ pc[r] = "pace"
    /\ Logged(r, Entry("sleep", "pace", "", None, "", PaceMs))
    /\ pc' = [pc EXCEPT ![r] = "stream_next"]
    /\ UNCHANGED lifeVars
    /\ UNCHANGED <<full_response, processing_message, wait, gpc, retry_count,
                   retry_delay, messages, chunksLeft, downFaults, upFaults>>

\* line 71: asyncio.sleep(e.retry_after)
RateLimitSleep(r) ==
    /\ pc[r] = "rl_sleep"
    /\ Logged(r, Entry("sleep", "rl_sleep", "", None, "", RateLimitWaitMs(wait[r])))
    /\ pc' = [pc EXCEPT ![r] = "rl_retry"]
    /\ UNCHANGED lifeVars
    /\ UNCHANGED <<full_response, processing_message, wait, gpc, retry_count,
                   retry_delay, messages, chunksLeft, downFaults, upFaults>>

\* a retry whose failure would be answered by sending the text as a new message
AfterRetryFailureFallback == "fallback"

\* where an exception raised by the retry of line 72 is handled: the retry
\* stands inside an except clause, so only the outer handler of line 94 sees it
AfterRetryFailure == "outer_except"

\* line 72: the retry, inside the except clause
RateLimitRetry(r) ==
    /\ pc[r] = "rl_retry"
    /\ \E o \in DownOutcomes(r) :
        /\ messages' = EditMsg(processing_message[r], full_response[r], o)
        /\ Logged(r, CallEntry("edit", "rl_retry", full_response[r],
                           processing_message[r], o))
        /\ Charge(r, o)
        /\ pc' = [pc EXCEPT ![r] =
                    IF o.kind = "ok" THEN "stream_next" ELSE AfterRetryFailure]
    /\ UNCHANGED lifeVars
    /\ UNCHANGED <<full_response, processing_message, wait, gpc, retry_count,
                   retry_delay, chunksLeft, upFaults>>

\* line 76: asyncio.sleep(1) after TimedOut / NetworkError
NetSleep(r) ==
    /\ pc[r] = "net_sleep"
    /\ Logged(r, Entry("sleep", "net_sleep", "", None, "", NetCooldownMs))
    /\ pc' = [pc EXCEPT ![r] = "stream_next"]
    /\ UNCHANGED lifeVars
    /\ UNCHANGED <<full_response, processing_message, wait, gpc, retry_count,
                   retry_delay, messages, chunksLeft, downFaults, upFaults>>

(***************************************************************************)
(* handle_message: the final flush and the outer handler, lines 80-96.     *)
(***************************************************************************)
\* a final flush without the fallback: every failure goes to the outer handler
AfterFlushFailureOuter(text) == "outer_except"

\* where a failed final edit leads: the fallback send when there is text
\* (lines 84-88), the outer handler for the fixed message of line 92
AfterFlushFailure(text) == IF text # "" THEN "fallback" ELSE "outer_except"

\* lines 81-83 and 91-92
Flush(r) ==
    /\ pc[r] = "flush"
    /\ \E o \in DownOutcomes(r) :
        /\ messages' = EditMsg(processing_message[r], FlushText(full_response[r]), o)
        /\ Logged(r, CallEntry("edit", "flush", FlushText(full_response[r]),
                           processing_message[r], o))
        /\ Charge(r, o)
        /\ pc' = [pc EXCEPT ![r] =
                    IF o.kind = "ok" THEN "done" ELSE AfterFlushFailure(full_response[r])]
    /\ UNCHANGED lifeVars
    /\ UNCHANGED <<full_response, processing_message, wait, gpc, retry_count,
                   retry_delay, chunksLeft, upFaults>>

\* lines 87-90: update.message.reply_text(full_response), failure only logged
Fallback(r) ==
    /\ pc[r] = "fallback"
    /\ \E o \in DownOutcomes(r) :
        /\ messages' = SendNew(full_response[r], o)
        /\ Logged(r, CallEntry("reply", "fallback", full_response[r],
                           IF o.kind = "ok" THEN Len(messages') ELSE None, o))
        /\ Charge(r, o)
    /\ pc' = [pc EXCEPT ![r] = "done"]
    /\ UNCHANGED lifeVars
    /\ UNCHANGED <<full_response, processing_message, wait, gpc, retry_count,
                   retry_delay, chunksLeft, upFaults>>

\* lines 94-96: the outer handler's edit; its own failure leaves handle_message
OuterExcept(r) ==
    /\ pc[r] = "outer_except"
    /\ \E o \in DownOutcomes(r) :
        /\ messages' = EditMsg(processing_message[r], ErrorText, o)
        /\ Logged(r, CallEntry("edit", "outer_except", ErrorText,
                           processing_message[r], o))
        /\ Charge(r, o)
        /\ pc' = [pc EXCEPT ![r] = IF o.kind = "ok" THEN "done" ELSE "raised"]
    /\ UNCHANGED lifeVars
    /\ UNCHANGED <<full_response, processing_message, wait, gpc, retry_count,
                   retry_delay, chunksLeft, upFaults>>

RelayStep(r) ==
    \/ HandleMessage(r)
    \/ GenRequest(r)
    \/ GenChunk(r)
    \/ GenEmptyChunk(r)
    \/ GenStreamEnd(r)
    \/ GenStreamError(r)
    \/ GenBackoff(r)
    \/ GenExit(r)
    \/ Publish(r)
    \/ Pace(r)
    \/ RateLimitSleep(r)
    \/ RateLimitRetry(r)
    \/ NetSleep(r)
    \/ Flush(r)
    \/ Fallback(r)
    \/ OuterExcept(r)

(***************************************************************************)
(* The session: TelegramBot (src/telegram_bot.py) and the endpoints of     *)
(* src/main.py.  Tasks are coroutines of one event loop: a task runs until *)
(* it awaits, and cur names the task that is running.                      *)
(***************************************************************************)
Tasks == {1, 2}

\* the value settings.webhook_secret, and the secret-token headers a request
\* may carry
WebhookSecret == "s3cret"
Headers == {"s3cret", "guess"}

\* a new asyncio.Lock()
FreeLock == [holder |-> None, waiters |-> <<>>]

\* TelegramBot.__init__: no application, a new lock object
BotInit(lockTable) ==
    [application |-> None, locks |-> Append(lockTable, FreeLock),
     shutdown_lock |-> Len(lockTable) + 1]

\* a setup that builds another Application whether or not one exists
SetupApplicationAlways(app, n) == [application |-> n + 1, built |-> n + 1]

\* setup_application: the existing Application, or a newly built one
SetupApplication(app, n) ==
    IF app # None
        THEN [application |-> app, built |-> n]
        ELSE [application |-> n + 1, built |-> n + 1]

\* a cleanup that is skipped when the body raised
ClearedUnlessRaised(app, raised) == IF raised THEN app ELSE None

\* shutdown's finally clause: what self.application becomes
Cleared(app, raised) == None

\* a webhook handler without the JSONDecodeError clause of lines 89-94
WebhookCatchAll(exc) == 500

\* webhook's except clauses: the status a raised exception is answered with
WebhookCatch(exc) == IF exc = "JSONDecodeError" THEN 400 ELSE 500

\* webhook line 69: whether the request is refused
Unauthorized(hdr) == settings.is_production /\ hdr # WebhookSecret

IdleTask ==
    [pc |-> "idle", op |-> "none", lock |-> None, app |-> None, from |-> "none",
     ok |-> FALSE, code |-> 0, connected |-> FALSE, hdr |-> "",
     raised |-> FALSE, calls |-> 0, entryApp |-> None, exc |-> "none"]

At(t, label) == task[t].pc = label
\* task t goes on without awaiting
Runs(t) == cur = t
\* task t is resumed by the event loop
Resumed(t) == cur = None
Upd(t, rec) == task' = [task EXCEPT ![t] = rec]

\* the HTTP response is sent; the task is free for another call
Respond(t, rec, code) ==
    /\ Upd(t, [IdleTask EXCEPT !.op = rec.op, !.hdr = rec.hdr, !.ok = rec.ok,
                               !.connected = rec.connected, !.code = code,
                               !.exc = rec.exc])
    /\ cur' = None

\* an exception raised inside webhook's try block: the except clauses answer it
WebhookRaise(t, rec, exc) == Respond(t, [rec EXCEPT !.exc = exc], WebhookCatch(exc))

CanCall(t) == /\ Resumed(t) /\ At(t, "idle") /\ opsLeft > 0
              /\ \A u \in Tasks : task[u].op # "startup" \/ At(u, "idle")

NewCall(t, op) == [IdleTask EXCEPT !.op = op]

(***************************************************************************)
(* setup_application, lines 112-138.  It never awaits.                     *)
(***************************************************************************)
SetupApplicationCall(t) ==
    /\ Runs(t) /\ At(t, "sa")
    /\ LET res == SetupApplication(application, built) IN
        /\ application' = res.application
        /\ built' = res.built
        /\ Upd(t, IF task[t].op = "api_setup"
                     THEN [task[t] EXCEPT !.pc = "idle", !.app = res.application,
                                          !.entryApp = application]
                     ELSE [task[t] EXCEPT !.pc = "sw_enter"])
    /\ cur' = IF task[t].op = "api_setup" THEN None ELSE t
    /\ UNCHANGED <<shutdown_lock, locks, appInit, webhookSet, bot_connected,
                   settings, processed, started, opsLeft>>
    /\ UNCHANGED relayVars

(***************************************************************************)
(* shutdown, lines 140-153.                                                *)
(***************************************************************************)
\* line 142: async with self._shutdown_lock, on the lock object of this moment
ShutdownEnter(t) ==
    /\ Runs(t) /\ At(t, "sd_enter")
    /\ LET l == shutdown_lock IN
       IF locks[l].holder = None /\ locks[l].waiters = <<>>
          THEN /\ locks' = [locks EXCEPT ![l].holder = t]
               /\ Upd(t, [task[t] EXCEPT !.pc = "sd_body", !.lock = l])
               /\ cur' = t
          ELSE /\ locks' = [locks EXCEPT ![l].waiters = Append(@, t)]
               /\ Upd(t, [task[t] EXCEPT !.pc = "sd_wait", !.lock = l])
               /\ cur' = None
    /\ UNCHANGED <<application, shutdown_lock, built, appInit, webhookSet,
                   bot_connected, settings, processed, started, opsLeft>>
    /\ UNCHANGED relayVars

\* the lock was released to this waiter
ShutdownAcquired(t) ==
    /\ Resumed(t) /\ At(t, "sd_wait")
    /\ locks[task[t].lock].holder = t
    /\ Upd(t, [task[t] EXCEPT !.pc = "sd_body"])
    /\ cur' = t
    /\ UNCHANGED <<application, shutdown_lock, locks, built, appInit, webhookSet,
                   bot_connected, settings, processed, started, opsLeft>>
    /\ UNCHANGED relayVars

\* lines 143-148: nothing to do, or the first disconnect call; updater.running
\* is the library's state and may read either way
ShutdownBody(t) ==
    /\ Runs(t) /\ At(t, "sd_body")
    /\ IF application = None
          THEN /\ Upd(t, [task[t] EXCEPT !.pc = "sd_exit", !.entryApp = None,
                                         !.calls = 0, !.raised = FALSE])
               /\ cur' = t
          ELSE \E running \in BOOLEAN :
               /\ Upd(t, [task[t] EXCEPT
                            !.pc = IF running THEN "sd_stop" ELSE "sd_app",
                            !.app = application, !.entryApp = application,
                            !.calls = 1, !.raised = FALSE])
               /\ cur' = None
    /\ UNCHANGED <<application, shutdown_lock, locks, built, appInit, webhookSet,
                   bot_connected, settings, processed, started, opsLeft>>
    /\ UNCHANGED relayVars

\* line 147 returned or raised; line 148 reads self.application again
ShutdownStopped(t) ==
    /\ Resumed(t) /\ At(t, "sd_stop")
    /\ \E ok \in BOOLEAN :
        IF ok /\ application # None
            THEN /\ Upd(t, [task[t] EXCEPT !.pc = "sd_app", !.app = application,
                                           !.calls = @ + 1])
                 /\ cur' = None
            ELSE /\ Upd(t, [task[t] EXCEPT !.pc = "sd_finally", !.raised = TRUE])
                 /\ cur' = t
    /\ UNCHANGED <<application, shutdown_lock, locks, built, appInit, webhookSet,
                   bot_connected, settings, processed, started, opsLeft>>
    /\ UNCHANGED relayVars

\* line 148 returned or raised
ShutdownDisconnected(t) ==
    /\ Resumed(t) /\ At(t, "sd_app")
    /\ \E ok \in BOOLEAN :
        /\ appInit' = IF ok THEN appInit \ {task[t].app} ELSE appInit
        /\ Upd(t, [task[t] EXCEPT !.pc = "sd_finally", !.raised = ~ok])
    /\ cur' = t
    /\ UNCHANGED <<application, shutdown_lock, locks, built, webhookSet,
                   bot_connected, settings, processed, started, opsLeft>>
    /\ UNCHANGED relayVars

\* lines 150-153: except, finally
ShutdownFinally(t) ==
    /\ Runs(t) /\ At(t, "sd_finally")
    /\ application' = Cleared(application, task[t].raised)
    /\ Upd(t, [task[t] EXCEPT !.pc = "sd_exit"])
    /\ cur' = t
    /\ UNCHANGED <<shutdown_lock, locks, built, appInit, webhookSet,
                   bot_connected, settings, processed, started, opsLeft>>
    /\ UNCHANGED relayVars

\* the lock is released, to its first waiter if there is one, and shutdown returns
ShutdownReturn(t) ==
    /\ Runs(t) /\ At(t, "sd_exit")
    /\ LET l == task[t].lock
           w == locks[l].waiters IN
       locks' = [locks EXCEPT ![l] =
                    IF w = <<>> THEN FreeLock
                    ELSE [holder |-> Head(w), waiters |-> Tail(w)]]
    /\ Upd(t, [task[t] EXCEPT
                !.pc = CASE task[t].from = "restart" -> "rs_init"
                         [] task[t].from = "setup_webhook" -> "sw_ret"
                         [] OTHER -> "idle",
                !.ok = FALSE, !.lock = None, !.app = None, !.raised = FALSE,
                !.calls = 0, !.entryApp = None])
    /\ cur' = IF task[t].from \in {"restart", "setup_webhook"} THEN t ELSE None
    /\ UNCHANGED <<application, shutdown_lock, built, appInit, webhookSet,
                   bot_connected, settings, processed, started, opsLeft>>
    /\ UNCHANGED relayVars

(***************************************************************************)
(* setup_webhook, lines 210-244.                                           *)
(***************************************************************************)
\* lines 215-220: an application if there is none, then initialize() is awaited
SetupWebhookEnter(t) ==
    /\ Runs(t) /\ At(t, "sw_enter")
    /\ LET res == IF application = None
                     THEN SetupApplication(application, built)
                     ELSE [application |-> application, built |-> built] IN
        /\ application' = res.application
        /\ built' = res.built
        /\ Upd(t, [task[t] EXCEPT !.pc = "sw_init", !.app = res.application])
    /\ cur' = None
    /\ UNCHANGED <<shutdown_lock, locks, appInit, webhookSet, bot_connected,
                   settings, processed, started, opsLeft>>
    /\ UNCHANGED relayVars

\* a setup_webhook that returns False for a failed initialize() or a missing
\* URL without the shutdown of lines 228 and 243
SetupWebhookInitializedNoCleanup(t) ==
    /\ Resumed(t) /\ At(t, "sw_init")
    /\ \E ok \in BOOLEAN :
        /\ appInit' = IF ok THEN appInit \cup {task[t].app} ELSE appInit
        /\ IF ok /\ settings.webhook_url /\ application # None
              THEN /\ Upd(t, [task[t] EXCEPT !.pc = "sw_set", !.app = application])
                   /\ cur' = None
              ELSE /\ Upd(t, [task[t] EXCEPT !.pc = "sw_ret", !.ok = FALSE,
                                             !.from = "setup_webhook"])
                   /\ cur' = t
    /\ UNCHANGED <<application, shutdown_lock, locks, built, webhookSet,
                   bot_connected, settings, processed, started, opsLeft>>
    /\ UNCHANGED relayVars

\* lines 220-236: initialize() returned or raised; the URL test; set_webhook
\* is called on self.application as it is now
SetupWebhookInitialized(t) ==
    /\ Resumed(t) /\ At(t, "sw_init")
    /\ \E ok \in BOOLEAN :
        /\ appInit' = IF ok THEN appInit \cup {task[t].app} ELSE appInit
        /\ IF ok /\ settings.webhook_url /\ application # None
              THEN /\ Upd(t, [task[t] EXCEPT !.pc = "sw_set", !.app = application])
                   /\ cur' = None
              ELSE /\ Upd(t, [task[t] EXCEPT !.pc = "sd_enter", !.from = "setup_webhook"])
                   /\ cur' = t
    /\ UNCHANGED <<application, shutdown_lock, locks, built, webhookSet,
                   bot_connected, settings, processed, started, opsLeft>>
    /\ UNCHANGED relayVars

\* a failure of set_webhook that returns False without the shutdown of line 243
SetupWebhookRegisteredNoCleanup(t) ==
    /\ Resumed(t) /\ At(t, "sw_set")
    /\ \E ok \in BOOLEAN :
        /\ webhookSet' = IF ok THEN TRUE ELSE webhookSet
        /\ Upd(t, [task[t] EXCEPT !.pc = "sw_ret", !.ok = ok])
    /\ cur' = t
    /\ UNCHANGED <<application, shutdown_lock, locks, built, appInit,
                   bot_connected, settings, processed, started, opsLeft>>
    /\ UNCHANGED relayVars

\* lines 232-244: set_webhook returned (return True) or raised (shutdown, False)
SetupWebhookRegistered(t) ==
    /\ Resumed(t) /\ At(t, "sw_set")
    /\ \E ok \in BOOLEAN :
        /\ webhookSet' = IF ok THEN TRUE ELSE webhookSet
        /\ IF ok
              THEN Upd(t, [task[t] EXCEPT !.pc = "sw_ret", !.ok = TRUE])
              ELSE Upd(t, [task[t] EXCEPT !.pc = "sd_enter", !.from = "setup_webhook"])
    /\ cur' = t
    /\ UNCHANGED <<application, shutdown_lock, locks, built, appInit,
                   bot_connected, settings, processed, started, opsLeft>>
    /\ UNCHANGED relayVars

\* setup_webhook returned task[t].ok to its caller: startup_event lines 48-54,
\* set_webhook lines 159-165, restart_bot lines 238-245, or a direct caller
SetupWebhookReturn(t) ==
    /\ Runs(t) /\ At(t, "sw_ret")
    /\ bot_connected' =
         IF task[t].op \in {"startup", "restart"} /\ task[t].ok THEN TRUE ELSE bot_connected
    /\ Respond(t, task[t],
               CASE task[t].op \in {"startup", "api_setup_webhook"} -> 0
                 [] task[t].ok -> 200
                 [] OTHER -> 500)
    /\ UNCHANGED <<application, shutdown_lock, locks, built, appInit, webhookSet,
                   settings, processed, started, opsLeft>>
    /\ UNCHANGED relayVars

(***************************************************************************)
(* The endpoints of src/main.py.                                           *)
(***************************************************************************)
\* startup_event, lines 36-47: runs before any request is served
Startup(t) ==
    /\ Resumed(t) /\ At(t, "idle") /\ ~started
    /\ started' = TRUE
    /\ Upd(t, [NewCall(t, "startup") EXCEPT !.pc = "sa"])
    /\ cur' = t
    /\ UNCHANGED <<application, shutdown_lock, locks, built, appInit, webhookSet,
                   bot_connected, settings, processed, opsLeft>>
    /\ UNCHANGED relayVars

\* restart_bot, lines 225-230
Restart(t) ==
    /\ CanCall(t) /\ started
    /\ bot_connected' = FALSE
    /\ Upd(t, [NewCall(t, "restart") EXCEPT !.pc = "sd_enter", !.from = "restart"])
    /\ cur' = t
    /\ opsLeft' = opsLeft - 1
    /\ UNCHANGED <<application, shutdown_lock, locks, built, appInit, webhookSet,
                   settings, processed, started>>
    /\ UNCHANGED relayVars

\* restart_bot, line 233: bot.__init__(), then setup_application of line 234
RestartReinit(t) ==
    /\ Runs(t) /\ At(t, "rs_init")
    /\ LET b == BotInit(locks) IN
        /\ application' = b.application
        /\ locks' = b.locks
        /\ shutdown_lock' = b.shutdown_lock
    /\ Upd(t, [task[t] EXCEPT !.pc = "sa"])
    /\ cur' = t
    /\ UNCHANGED <<built, appInit, webhookSet, bot_connected, settings,
                   processed, started, opsLeft>>
    /\ UNCHANGED relayVars

\* set_webhook_post / set_webhook_get, lines 149-158 and 174-183
SetWebhook(t) ==
    /\ CanCall(t) /\ started
    /\ IF ~settings.webhook_url
          THEN Respond(t, NewCall(t, "set_webhook"), 400)
          ELSE /\ Upd(t, [NewCall(t, "set_webhook") EXCEPT !.pc = "sw_enter"])
               /\ cur' = t
    /\ opsLeft' = opsLeft - 1
    /\ UNCHANGED <<application, shutdown_lock, locks, built, appInit, webhookSet,
                   bot_connected, settings, processed, started>>
    /\ UNCHANGED relayVars

\* remove_webhook, lines 203-212
RemoveWebhook(t) ==
    /\ CanCall(t) /\ started
    /\ IF application = None
          THEN Respond(t, NewCall(t, "remove_webhook"), 500)
          ELSE /\ Upd(t, [NewCall(t, "remove_webhook") EXCEPT
                            !.pc = "rw_del", !.app = application])
               /\ cur' = None
    /\ opsLeft' = opsLeft - 1
    /\ UNCHANGED <<application, shutdown_lock, locks, built, appInit, webhookSet,
                   bot_connected, settings, processed, started>>
    /\ UNCHANGED relayVars

\* remove_webhook, lines 206-218: delete_webhook returned or raised
WebhookDeleted(t) ==
    /\ Resumed(t) /\ At(t, "rw_del")
    /\ \E ok \in BOOLEAN :
        /\ webhookSet' = IF ok THEN FALSE ELSE webhookSet
        /\ Respond(t, task[t], IF ok THEN 200 ELSE 500)
    /\ UNCHANGED <<application, shutdown_lock, locks, built, appInit,
                   bot_connected, settings, processed, started, opsLeft>>
    /\ UNCHANGED relayVars

\* a status that reports what startup or restart last recorded
GetStatusRecorded(t) ==
    /\ CanCall(t) /\ started
    /\ Respond(t, [NewCall(t, "status") EXCEPT !.connected = bot_connected], 200)
    /\ opsLeft' = opsLeft - 1
    /\ UNCHANGED <<application, shutdown_lock, locks, built, appInit, webhookSet,
                   bot_connected, settings, processed, started>>
    /\ UNCHANGED relayVars

\* get_status, lines 131-146
GetStatus(t) ==
    /\ CanCall(t) /\ started
    /\ bot_connected' = (application # None)
    /\ Respond(t, [NewCall(t, "status") EXCEPT !.connected = bot_connected'], 200)
    /\ opsLeft' = opsLeft - 1
    /\ UNCHANGED <<application, shutdown_lock, locks, built, appInit, webhookSet,
                   settings, processed, started>>
    /\ UNCHANGED relayVars

\* webhook, lines 66-74: the secret test; its HTTPException is raised inside
\* the try; otherwise request.json() is awaited
Webhook(t) ==
    /\ CanCall(t) /\ started
    /\ \E hdr \in Headers :
        LET call == [NewCall(t, "webhook") EXCEPT !.hdr = hdr] IN
        IF Unauthorized(hdr)
            THEN WebhookRaise(t, call, "HTTPException")
            ELSE /\ Upd(t, [call EXCEPT !.pc = "wh_json"])
                 /\ cur' = None
    /\ opsLeft' = opsLeft - 1
    /\ UNCHANGED <<application, shutdown_lock, locks, built, appInit, webhookSet,
                   bot_connected, settings, processed, started>>
    /\ UNCHANGED relayVars

\* a handler that builds the missing Application instead of answering 500
WebhookParsedLazy(t) ==
    /\ Resumed(t) /\ At(t, "wh_json")
    /\ \E body \in {"update", "not an update", "not json"} :
        CASE body = "not json" ->
                /\ WebhookRaise(t, task[t], "JSONDecodeError")
                /\ UNCHANGED <<processed, application, built>>
          [] body = "not an update" ->
                /\ WebhookRaise(t, task[t], "Exception")
                /\ UNCHANGED <<processed, application, built>>
          [] OTHER ->
                LET res == SetupApplication(application, built) IN
                /\ application' = res.application
                /\ built' = res.built
                /\ Upd(t, [task[t] EXCEPT !.pc = "wh_proc", !.app = res.application])
                /\ cur' = None
                /\ processed' = processed + 1
    /\ UNCHANGED <<shutdown_lock, locks, appInit, webhookSet,
                   bot_connected, settings, started, opsLeft>>
    /\ UNCHANGED relayVars

\* webhook, lines 74-85: the body parsed or not; the application; the update
\* built by Update.de_json or not; process_update awaited
WebhookParsed(t) ==
    /\ Resumed(t) /\ At(t, "wh_json")
    /\ \E body \in {"update", "not an update", "not json"} :
        CASE body = "not json" ->
                /\ WebhookRaise(t, task[t], "JSONDecodeError")
                /\ UNCHANGED processed
          [] body # "not json" /\ application = None ->
                /\ Respond(t, task[t], 500)
                /\ UNCHANGED processed
          [] body = "not an update" /\ application # None ->
                /\ WebhookRaise(t, task[t], "Exception")
                /\ UNCHANGED processed
          [] OTHER ->
                /\ Upd(t, [task[t] EXCEPT !.pc = "wh_proc", !.app = application])
                /\ cur' = None
                /\ processed' = processed + 1
    /\ UNCHANGED <<application, shutdown_lock, locks, built, appInit, webhookSet,
                   bot_connected, settings, started, opsLeft>>
    /\ UNCHANGED relayVars

\* webhook, lines 85-97: process_update returned or raised
WebhookProcessed(t) ==
    /\ Resumed(t) /\ At(t, "wh_proc")
    /\ \E ok \in BOOLEAN :
        IF ok THEN Respond(t, task[t], 200) ELSE WebhookRaise(t, task[t], "Exception")
    /\ UNCHANGED <<application, shutdown_lock, locks, built, appInit, webhookSet,
                   bot_connected, settings, processed, started, opsLeft>>
    /\ UNCHANGED relayVars

(***************************************************************************)
(* Direct callers of the TelegramBot methods.                              *)
(***************************************************************************)
ApiSetupApplication(t) ==
    /\ CanCall(t)
    /\ Upd(t, [NewCall(t, "api_setup") EXCEPT !.pc = "sa"])
    /\ cur' = t
    /\ opsLeft' = opsLeft - 1
    /\ UNCHANGED <<application, shutdown_lock, locks, built, appInit, webhookSet,
                   bot_connected, settings, processed, started>>
    /\ UNCHANGED relayVars

ApiShutdown(t) ==
    /\ CanCall(t)
    /\ Upd(t, [NewCall(t, "api_shutdown") EXCEPT !.pc = "sd_enter", !.from = "api"])
    /\ cur' = t
    /\ opsLeft' = opsLeft - 1
    /\ UNCHANGED <<application, shutdown_lock, locks, built, appInit, webhookSet,
                   bot_connected, settings, processed, started>>
    /\ UNCHANGED relayVars

ApiSetupWebhook(t) ==
    /\ CanCall(t)
    /\ Upd(t, [NewCall(t, "api_setup_webhook") EXCEPT !.pc = "sw_enter"])
    /\ cur' = t
    /\ opsLeft' = opsLeft - 1
    /\ UNCHANGED <<application, shutdown_lock, locks, built, appInit, webhookSet,
                   bot_connected, settings, processed, started>>
    /\ UNCHANGED relayVars

(***************************************************************************)
(* Initial states.                                                         *)
(***************************************************************************)
\* bot = TelegramBot() and bot_connected = False, main.py lines 23 and 33,
\* under the given configuration, with `calls` calls left to the environment
LifeInit(configs, calls, isStarted) ==
    /\ application = None
    /\ shutdown_lock = 1
    /\ locks = <<FreeLock>>
    /\ built = 0
    /\ appInit = {}
    /\ webhookSet = FALSE
    /\ bot_connected = FALSE
    /\ settings \in configs
    /\ cur = None
    /\ task = [t \in Tasks |-> IdleTask]
    /\ processed = 0
    /\ started = isStarted
    /\ opsLeft = calls

Configs == [is_production : BOOLEAN, webhook_url : BOOLEAN]
\* the configuration of a deployed bot
Deployed == [is_production |-> TRUE, webhook_url |-> TRUE]

(***************************************************************************)
(* Specifications of the relay.                                            *)
(***************************************************************************)
\* the state when handle_message is entered for each relay, with the faults
\* the environment may still inject
RelayInit(chunks, down, up) ==
    /\ pc = [r \in Relays |-> "start"]
    /\ full_response = [r \in Relays |-> ""]
    /\ processing_message = [r \in Relays |-> None]
    /\ wait = [r \in Relays |-> 0]
    /\ gpc = [r \in Relays |-> "attempt"]
    /\ retry_count = [r \in Relays |-> 0]
    /\ retry_delay = [r \in Relays |-> InitialRetryDelay]
    /\ messages = <<>>
    /\ log = [r \in Relays |-> <<>>]
    /\ chunksLeft = [r \in Relays |-> chunks]
    /\ downFaults = [r \in Relays |-> down]
    /\ upFaults = [r \in Relays |-> up]

\* one relay, a failing downstream platform, a mostly healthy provider
InitRelay ==
    /\ RelayInit(MaxChunks, MaxDownFaults, MaxUpFaults)
    /\ LifeInit({Deployed}, 0, TRUE)
NextRelay == RelayStep(1)
SpecRelay == InitRelay /\ [][NextRelay]_vars

\* one relay, a healthy downstream platform, a provider that may fail at every
\* attempt: more failures than the generator's retry ceiling lets happen
GenStep(r) ==
    \/ HandleMessage(r)
    \/ GenRequest(r)
    \/ GenChunk(r)
    \/ GenEmptyChunk(r)
    \/ GenStreamEnd(r)
    \/ GenStreamError(r)
    \/ GenBackoff(r)
    \/ GenExit(r)
    \/ Publish(r)
    \/ Pace(r)
    \/ Flush(r)

InitGen ==
    /\ RelayInit(MaxChunksGen, 0, 2 * max_retries + 2)
    /\ LifeInit({Deployed}, 0, TRUE)
NextGen == GenStep(1)
SpecGen == InitGen /\ [][NextGen]_vars
\* the event loop resumes a task that can run, and the provider's stream ends
SpecGenFair == SpecGen /\ WF_vars(NextGen)

\* two relays for two users, run as two tasks of the event loop: any
\* interleaving at their awaits; a failing platform, a healthy provider
DuoStep(r) ==
    \/ HandleMessage(r)
    \/ GenRequest(r)
    \/ GenChunk(r)
    \/ GenEmptyChunk(r)
    \/ GenStreamEnd(r)
    \/ Publish(r)
    \/ Pace(r)
    \/ RateLimitSleep(r)
    \/ RateLimitRetry(r)
    \/ NetSleep(r)
    \/ Flush(r)
    \/ Fallback(r)
    \/ OuterExcept(r)

InitDuo ==
    /\ RelayInit(MaxChunksDuo, MaxDownFaultsDuo, 0)
    /\ LifeInit({Deployed}, 0, TRUE)
NextDuo == \E r \in Relays : DuoStep(r)
SpecDuo == InitDuo /\ [][NextDuo]_vars

(***************************************************************************)
(* Specifications of the session.                                          *)
(***************************************************************************)
\* the bodies of the TelegramBot methods
MethodStep(t) ==
    \/ SetupApplicationCall(t)
    \/ ShutdownEnter(t)
    \/ ShutdownAcquired(t)
    \/ ShutdownBody(t)
    \/ ShutdownStopped(t)
    \/ ShutdownDisconnected(t)
    \/ ShutdownFinally(t)
    \/ ShutdownReturn(t)
    \/ SetupWebhookEnter(t)
    \/ SetupWebhookInitialized(t)
    \/ SetupWebhookRegistered(t)
    \/ SetupWebhookReturn(t)

\* the HTTP server: startup, then concurrent requests
EndpointStep(t) ==
    \/ Startup(t)
    \/ Restart(t)
    \/ RestartReinit(t)
    \/ SetWebhook(t)
    \/ RemoveWebhook(t)
    \/ WebhookDeleted(t)
    \/ GetStatus(t)
    \/ Webhook(t)
    \/ WebhookParsed(t)
    \/ WebhookProcessed(t)

\* concurrent direct callers of the methods
ApiStep(t) ==
    \/ ApiSetupApplication(t)
    \/ ApiShutdown(t)
    \/ ApiSetupWebhook(t)

\* no relay runs under the session specifications
NoRelay == RelayInit(0, 0, 0)

Init == NoRelay /\ LifeInit(Configs, MaxCalls, FALSE)
Next == \E t \in Tasks : EndpointStep(t) \/ MethodStep(t)
Spec == Init /\ [][Next]_vars

\* webhook requests that run their relays, next to restarts: task t's
\* process_update awaits the handle_message call of relay t, once per task
HookRelayStep(r) ==
    \/ HandleMessage(r)
    \/ GenRequest(r)
    \/ GenChunk(r)
    \/ GenEmptyChunk(r)
    \/ GenStreamEnd(r)
    \/ Publish(r)
    \/ Pace(r)
    \/ Flush(r)

\* main.py line 85: handle_message runs inside the awaited process_update
HookRelay(t) == At(t, "wh_proc") /\ Resumed(t) /\ HookRelayStep(t)
HookParsed(t) == pc[t] = "start" /\ WebhookParsed(t)
HookProcessed(t) == pc[t] \in {"done", "raised"} /\ WebhookProcessed(t)

HookStep(t) ==
    \/ Startup(t)
    \/ Restart(t)
    \/ RestartReinit(t)
    \/ Webhook(t)
    \/ HookParsed(t)
    \/ HookRelay(t)
    \/ HookProcessed(t)

InitHook == RelayInit(MaxChunksHook, 0, 0) /\ LifeInit({Deployed}, MaxHookCalls, FALSE)
NextHook == \E t \in Tasks : HookStep(t) \/ MethodStep(t)
SpecHook == InitHook /\ [][NextHook]_vars

InitApi == NoRelay /\ LifeInit({Deployed}, MaxApiCalls, TRUE)
NextApi == \E t \in Tasks : ApiStep(t) \/ MethodStep(t)
SpecApi == InitApi /\ [][NextApi]_vars

(***************************************************************************)
(* Reading the log.                                                        *)
(***************************************************************************)
RECURSIVE Concat(_)
Concat(texts) == IF texts = <<>> THEN "" ELSE Head(texts) \o Concat(Tail(texts))

IsFragment(e) == e.kind = "fragment"
IsCall(e) == e.kind \in {"reply", "edit"}
IsRequest(e) == e.kind = "request"
IsUpFailure(e) == (e.kind = "request" /\ e.res # "open") \/ e.kind = "error"

Texts(entries) == [i \in 1..Len(entries) |-> entries[i].text]
Fragments(r) == Texts(SelectSeq(log[r], IsFragment))
Calls(r) == SelectSeq(log[r], IsCall)
Requests(r) == SelectSeq(log[r], IsRequest)
UpFailures(r) == SelectSeq(log[r], IsUpFailure)

\* handle_message is over: it returned, or an exception left it
Over(r) == pc[r] \in {"done", "raised"}
\* the placeholder message was sent, so the relay has an edit target
Bound(r) == processing_message[r] # None
NoDownFailure(r) == \A i \in 1..Len(Calls(r)) : Calls(r)[i].res = "ok"
LastCall(r) == Calls(r)[Len(Calls(r))]

(***************************************************************************)
(* C1.  With no downstream failure, the last publish carries the           *)
(* concatenation of the fragments in arrival order.                        *)
(***************************************************************************)
\* C1 as stated: for EVERY fragment sequence, the empty one included, the text
\* of the last downstream publish is the concatenation of the fragments.
C1_LastPublishIsConcatenation ==
    \A r \in Relays :
        (Over(r) /\ Bound(r) /\ NoDownFailure(r))
            => LastCall(r).text = Concat(Fragments(r))

\* C1 amended: for every sequence of at least one fragment, when no downstream
\* call fails, the last downstream call is the final edit of the placeholder
\* message, its text is the concatenation of all fragments in arrival order,
\* and that is the text the user sees; for the empty sequence the last publish
\* is the fixed no-response text.
C1_NonEmptyConcatenation ==
    \A r \in Relays :
        (Over(r) /\ Bound(r) /\ NoDownFailure(r))
            => /\ pc[r] = "done"
               /\ LastCall(r).kind = "edit" /\ LastCall(r).at = "flush"
               /\ LastCall(r).handle = processing_message[r]
               /\ messages[processing_message[r]] = LastCall(r).text
               /\ full_response[r] = Concat(Fragments(r))
               /\ LastCall(r).text =
                    IF Fragments(r) # <<>> THEN Concat(Fragments(r)) ELSE NoResponseText

\* a relay that ended without a downstream failure after three fragments, one
\* of them a retry notice, with two distinct chunks around it
C1_Witness ==
    /\ Over(1) /\ Bound(1) /\ NoDownFailure(1)
    /\ Len(Fragments(1)) = 3
    /\ Fragments(1)[1] = "Hi" /\ Fragments(1)[2] = TimeoutNotice
    /\ Fragments(1)[3] = " there"

(***************************************************************************)
(* C4.  Rate limiting is absorbed by sleep-and-retry at every publish.     *)
(***************************************************************************)
IsPublish(e) == e.kind = "edit" /\ e.at \in {"publish", "rl_retry", "flush"}

\* C4 as stated: every publish, periodic or final, answered with RetryAfter
\* is followed by a sleep and a retry of the same text, and by no fallback
\* send and no error notice.
C4_RateLimitAbsorbed ==
    \A r \in Relays : \A i \in 1..Len(log[r]) :
        (IsPublish(log[r][i]) /\ log[r][i].res = "rate")
            => /\ i < Len(log[r]) => log[r][i + 1].kind = "sleep"
               /\ i + 1 < Len(log[r])
                    => /\ log[r][i + 2].kind = "edit"
                       /\ log[r][i + 2].text = log[r][i].text
               /\ i = Len(log[r]) => pc[r] \notin {"fallback", "outer_except", "done", "raised"}

(***************************************************************************)
(* C5.  No failure of a periodic publish ends the relay.                   *)
(***************************************************************************)
\* C5 as stated: whatever fails during a periodic publish, the relay consumes
\* the stream to its end and makes the final flush with the whole text.  A
\* relay that is over, and had its placeholder, has done both.
C5_PublishFailureNonFatal ==
    \A r \in Relays :
        (Over(r) /\ Bound(r))
            => /\ gpc[r] = "finished"
               /\ \E i \in 1..Len(log[r]) :
                    /\ log[r][i].kind = "edit" /\ log[r][i].at = "flush"
                    /\ log[r][i].text = FlushText(Concat(Fragments(r)))

(***************************************************************************)
(* C6.  A rate-limited periodic publish is retried with the same text      *)
(* after the wait the platform asked for.                                  *)
(***************************************************************************)
\* the fragments consumed before log entry i was made
FragmentsUpTo(r, i) == Texts(SelectSeq(SubSeq(log[r], 1, i), IsFragment))

\* C6: right after a periodic edit answered with RetryAfter(d) the relay
\* sleeps d seconds, and right after that sleep it edits the same message
\* with the same text; no fragment is consumed in between.
C6_RateLimitedPublishRetried ==
    \A r \in Relays : \A i \in 1..Len(log[r]) :
        LET e == log[r][i] IN
        (e.kind = "edit" /\ e.at = "publish" /\ e.res = "rate")
            => /\ i = Len(log[r]) => pc[r] = "rl_sleep"
               /\ i < Len(log[r])
                    => /\ log[r][i + 1].kind = "sleep"
                       /\ log[r][i + 1].ms = e.after * 1000
               /\ i + 1 = Len(log[r]) => pc[r] = "rl_retry"
               /\ i + 1 < Len(log[r])
                    => /\ log[r][i + 2].kind = "edit"
                       /\ log[r][i + 2].text = e.text
                       /\ log[r][i + 2].handle = e.handle
                       /\ e.text = Concat(FragmentsUpTo(r, i))

\* a periodic publish was rate limited with the longer hint, and retried
C6_Witness ==
    \E i \in 1..Len(log[1]) :
        /\ log[1][i].kind = "edit" /\ log[1][i].at = "publish"
        /\ log[1][i].res = "rate" /\ log[1][i].after = 5
        /\ i + 2 <= Len(log[1])
        /\ log[1][i + 2].at = "rl_retry" /\ log[1][i + 2].res = "ok"

(***************************************************************************)
(* C7.  Consecutive upstream timeouts.                                     *)
(***************************************************************************)
AllTimeouts(entries) == \A i \in 1..Len(entries) : entries[i].res = "timeout"
IsNotice(e) == IsFragment(e) /\ e.text \in {TimeoutNotice, ConnNotice}
IsFinalFailure(e) == IsFragment(e) /\ e.text = ExhaustedText
IsGenNote(e) == IsNotice(e) \/ IsFinalFailure(e)
IsGenEntry(e) == e.kind \in {"request", "error", "fragment"}
GenNotes(r) == Texts(SelectSeq(log[r], IsGenNote))
GenLog(r) == SelectSeq(log[r], IsGenEntry)

\* the provider has failed exactly n times so far, every time with a timeout
TimeoutsOnly(r, n) == Len(UpFailures(r)) = n /\ AllTimeouts(UpFailures(r))

\* C7 as stated: once the provider has timed out 3 times in a row, the
\* generator has emitted 3 notices followed by one final failure fragment and
\* is at its end, making no further request.
C7_ThreeTimeoutsExhaust ==
    \A r \in Relays :
        TimeoutsOnly(r, 3)
            => /\ GenNotes(r) = <<TimeoutNotice, TimeoutNotice, TimeoutNotice, ExhaustedText>>
               /\ gpc[r] \in {"exhausted", "finished"}

\* C7 amended: 3 consecutive timeouts produce 3 "retrying" notices and no
\* failure fragment, and the generator goes on to a 4th request; it is after
\* the 4th consecutive timeout (the initial attempt and all 3 retries) that
\* the generator has emitted exactly 3 notices followed by exactly one final
\* failure fragment, and it then terminates with no further request.
C7_FourTimeoutsExhaust ==
    \A r \in Relays :
        /\ TimeoutsOnly(r, 3)
            => /\ GenNotes(r) = <<TimeoutNotice, TimeoutNotice, TimeoutNotice>>
               /\ gpc[r] \in {"backoff", "attempt", "stream", "finished"}
               /\ gpc[r] \in {"backoff", "attempt"} => Len(Requests(r)) = 3
               /\ gpc[r] \in {"stream", "finished"}
                    => /\ Len(Requests(r)) = 4
                       /\ Requests(r)[4].res = "open"
        /\ TimeoutsOnly(r, 4)
            => /\ GenNotes(r) = <<TimeoutNotice, TimeoutNotice, TimeoutNotice, ExhaustedText>>
               /\ IsFinalFailure(GenLog(r)[Len(GenLog(r))])
               /\ Len(Requests(r)) = 4
               /\ gpc[r] \in {"exhausted", "finished"}
        /\ Len(UpFailures(r)) <= max_retries + 1

\* four timeouts in a row, each at the request itself, and the generator over
C7_Witness ==
    /\ TimeoutsOnly(1, 4)
    /\ Len(Requests(1)) = 4 /\ AllTimeouts(Requests(1))
    /\ gpc[1] = "finished"

(***************************************************************************)
(* C10.  A stream without fragments.                                       *)
(***************************************************************************)
\* the relay had its placeholder and is over, and the stream gave no fragment
ZeroFragments(r) == Over(r) /\ Bound(r) /\ Fragments(r) = <<>>

\* C10: when the stream yields no fragment, the one publish the relay makes
\* is the edit of its placeholder message to the fixed no-response text, which
\* is then what the user sees; no call carries response text, and the only
\* other call is the error notice made when that edit itself failed.
C10_EmptyStreamFixedMessage ==
    \A r \in Relays :
        ZeroFragments(r)
            => /\ Len(Calls(r)) >= 2
               /\ Calls(r)[2].kind = "edit"
               /\ Calls(r)[2].text = NoResponseText
               /\ Calls(r)[2].handle = processing_message[r]
               /\ \A i \in 1..Len(Calls(r)) :
                    Calls(r)[i].text \in {ThinkingText, NoResponseText, ErrorText}
               /\ \A i \in 2..Len(Calls(r)) : Calls(r)[i].kind = "edit"
               /\ Calls(r)[2].res = "ok"
                    => /\ Len(Calls(r)) = 2
                       /\ messages[processing_message[r]] = NoResponseText
               /\ Calls(r)[2].res # "ok"
                    => /\ Len(Calls(r)) = 3
                       /\ Calls(r)[3].text = ErrorText

\* a stream that ended without a fragment, its fixed message delivered
C10_Witness ==
    /\ ZeroFragments(1) /\ pc[1] = "done"
    /\ Len(Calls(1)) = 2 /\ Calls(1)[2].res = "ok"
    /\ Len(messages) = 1 /\ messages[1] = NoResponseText

(***************************************************************************)
(* C2.  One lifecycle transition at a time.                                *)
(***************************************************************************)
\* task t is inside the body of setup_application, shutdown, setup_webhook or
\* restart_bot (a task waiting for the lock is not)
InTransition(t) ==
    task[t].pc \in {"sa", "sd_body", "sd_stop", "sd_app", "sd_finally", "sd_exit",
                    "sw_enter", "sw_init", "sw_set", "sw_ret", "rs_init"}
\* task t waits for or holds a shutdown lock
AtLock(t) ==
    task[t].pc \in {"sd_wait", "sd_body", "sd_stop", "sd_app", "sd_finally", "sd_exit"}

\* C2 as stated: no two transition bodies are in progress at once, and all
\* the callers that wait for or hold the guard do so on one lock object.
C2_OneTransitionAtATime ==
    /\ Cardinality({t \in Tasks : InTransition(t)}) <= 1
    /\ \A t, u \in Tasks : (AtLock(t) /\ AtLock(u)) => task[t].lock = task[u].lock

(***************************************************************************)
(* C3.  An unauthorized webhook request.                                   *)
(***************************************************************************)
\* C3 as stated: in production mode a POST /webhook whose secret header does
\* not match is answered with status 401.
C3_UnauthorizedIs401 ==
    \A t \in Tasks :
        (task[t].op = "webhook" /\ At(t, "idle") /\ Unauthorized(task[t].hdr))
            => task[t].code = 401

(***************************************************************************)
(* C8.  shutdown leaves the session Uninitialized.                         *)
(***************************************************************************)
\* C8: when shutdown is about to return (its body and its finally clause are
\* done), self.application is None, whether its disconnect calls returned or
\* raised; and a shutdown that found no application made no disconnect call.
C8_ShutdownLeavesUninitialized ==
    \A t \in Tasks :
        At(t, "sd_exit")
            => /\ application = None
               /\ task[t].entryApp = None => (task[t].calls = 0 /\ ~task[t].raised)

\* a shutdown whose updater stop returned and whose disconnect raised
C8_Witness ==
    \E t \in Tasks :
        /\ At(t, "sd_exit") /\ task[t].raised /\ task[t].calls = 2
        /\ application = None

(***************************************************************************)
(* C9.  setup_application is idempotent.                                   *)
(***************************************************************************)
\* C9: a call of setup_application made while an Application exists builds
\* nothing and changes nothing: the session, the count of built Applications,
\* the lock and the initialization state are those of before the call, and
\* the Application it returns is the existing one.
C9_SetupIdempotent ==
    [][\A t \in Tasks :
        (At(t, "sa") /\ Runs(t) /\ application # None)
            => /\ application' = application
               /\ built' = built
               /\ <<shutdown_lock, locks, appInit, webhookSet>>' =
                    <<shutdown_lock, locks, appInit, webhookSet>>
               /\ task'[t].op = "api_setup" => task'[t].app = application]_vars

\* two direct calls of setup_application and nothing else: the second one
\* returned the Application the first one built, and one was built
C9_Witness ==
    /\ opsLeft = MaxApiCalls - 2
    /\ \A t \in Tasks : At(t, "idle")
    /\ \E t \in Tasks :
        /\ task[t].op = "api_setup"
        /\ task[t].entryApp # None /\ task[t].app = task[t].entryApp
    /\ \E t \in Tasks : task[t].op = "api_setup" /\ task[t].entryApp = None
    /\ built = 1 /\ application = 1

(***************************************************************************)
(* C11.  The final flush of a non-empty text.                              *)
(***************************************************************************)
IsOkCall(e) == IsCall(e) /\ e.res = "ok"
IsFlush(e) == e.kind = "edit" /\ e.at = "flush"
IsFallback(e) == e.kind = "reply" /\ e.at = "fallback"
Flushes(r) == SelectSeq(log[r], IsFlush)
Fallbacks(r) == SelectSeq(log[r], IsFallback)
\* the calls of relay r that succeeded on its placeholder message
OkOnTarget(r) ==
    LET onTarget(e) == IsOkCall(e) /\ e.handle = processing_message[r]
    IN  SelectSeq(log[r], onTarget)

\* C11: once the stream is over with a non-empty text, the relay makes one
\* edit with the full text; if it succeeds nothing follows; if it fails, for
\* whatever reason, one send of the full text as a new message follows, and
\* nothing follows that send whether it succeeds or fails: the handler
\* returns, and when both failed the placeholder message still shows the last
\* text that was published into it and no other message was created.
C11_FinalFlushThenFallback ==
    \A r \in Relays :
        LET n == Len(log[r]) IN
        /\ Len(Flushes(r)) <= 1 /\ Len(Fallbacks(r)) <= 1
        /\ \A i \in 1..n :
            (IsFlush(log[r][i]) /\ full_response[r] # "")
                => /\ log[r][i].text = full_response[r]
                   /\ log[r][i].text = Concat(Fragments(r))
                   /\ log[r][i].handle = processing_message[r]
                   /\ log[r][i].res = "ok" => (i = n /\ pc[r] = "done")
                   /\ log[r][i].res # "ok"
                        => /\ i = n => pc[r] = "fallback"
                           /\ i < n
                                => /\ i + 1 = n
                                   /\ IsFallback(log[r][n])
                                   /\ log[r][n].text = full_response[r]
                                   /\ pc[r] = "done"
                                   /\ log[r][n].res # "ok"
                                        => /\ Len(messages) = 1
                                           /\ messages[processing_message[r]] =
                                                OkOnTarget(r)[Len(OkOnTarget(r))].text
        /\ \A i \in 1..n : IsFallback(log[r][i]) => (i > 1 /\ IsFlush(log[r][i - 1]))

\* the final edit and the fallback send both failed, after a periodic publish
\* of a shorter text had succeeded: the user keeps that partial text
C11_Witness ==
    /\ pc[1] = "done"
    /\ Len(Flushes(1)) = 1 /\ Flushes(1)[1].res = "net"
    /\ Len(Fallbacks(1)) = 1 /\ Fallbacks(1)[1].res # "ok"
    /\ Len(OkOnTarget(1)) = 2
    /\ messages[processing_message[1]] = "abcdefghijklmnopqrst"
    /\ full_response[1] = "abcdefghijklmnopqrst" \o "Hi"

(***************************************************************************)
(* C12.  Two concurrent relays.                                            *)
(***************************************************************************)
\* C12: in every interleaving of two handle_message tasks, each task edits
\* only the message it sent itself, the two tasks are bound to different
\* messages, every text a task publishes is made of its own fragments only,
\* its accumulated text is the concatenation of its own fragments, and its
\* message shows what that task last published into it.
C12_RelaysIndependent ==
    /\ \A r \in Relays : \A i \in 1..Len(log[r]) :
        LET e == log[r][i] IN
        /\ e.kind = "edit"
            => /\ e.handle = processing_message[r]
               /\ e.handle = log[r][1].handle
               /\ \A q \in Relays \ {r} : e.handle # processing_message[q]
        /\ (IsCall(e) /\ e.text \notin {ThinkingText, NoResponseText, ErrorText})
            => e.text = Concat(FragmentsUpTo(r, i))
    /\ \A r \in Relays :
        /\ full_response[r] = Concat(Fragments(r))
        /\ Bound(r)
            => messages[processing_message[r]] = OkOnTarget(r)[Len(OkOnTarget(r))].text

\* both relays are over; the second one was bound first and streamed a
\* 20-character chunk, which it published and flushed; the first one streamed
\* another chunk: each message shows its own relay's text
C12_Witness ==
    /\ pc[1] = "done" /\ pc[2] = "done"
    /\ processing_message[2] = 1 /\ processing_message[1] = 2
    /\ messages = <<"abcdefghijklmnopqrst", "Hi">>
    /\ \E i \in 1..Len(log[2]) : log[2][i].at = "publish" /\ log[2][i].res = "ok"

(***************************************************************************)
(* C13.  restart_bot.                                                      *)
(***************************************************************************)
\* task t moves to position `to` in this step
Enters(t, to) == task[t].pc # to /\ task'[t].pc = to

\* C13: a restart goes through shutdown, then bot.__init__() and
\* setup_application, then setup_webhook, in this order; when setup_webhook
\* returns False to it, the restart answers 500, and at that moment the bot
\* has no application, and this task holds and awaits no lock: the session is
\* Uninitialized, not half set up.  When it returns True the answer is 200.
C13_RestartFailureLeavesUninitialized ==
    [][\A t \in Tasks :
        task'[t].op = "restart"
            => /\ Enters(t, "sd_enter") => task[t].pc \in {"idle", "sw_init", "sw_set"}
               /\ Enters(t, "rs_init")
                    => (task[t].pc = "sd_exit" /\ task[t].from = "restart")
               /\ Enters(t, "sa") => task[t].pc = "rs_init"
               /\ Enters(t, "sw_enter") => task[t].pc = "sa"
               /\ Enters(t, "sw_init") => task[t].pc = "sw_enter"
               /\ (Enters(t, "idle") /\ task[t].op = "restart")
                    => /\ task[t].pc = "sw_ret"
                       /\ task'[t].code = IF task[t].ok THEN 200 ELSE 500
                       /\ task[t].ok => bot_connected'
                       /\ ~task[t].ok
                            => /\ application = None /\ application' = None
                               /\ \A l \in 1..Len(locks') :
                                    /\ locks'[l].holder # t
                                    /\ \A i \in 1..Len(locks'[l].waiters) :
                                            locks'[l].waiters[i] # t]_vars

\* a restart whose setup_webhook failed is about to answer: it has built a
\* second Application after the one of startup, and the bot has none
C13_Witness ==
    \E t \in Tasks :
        /\ task[t].op = "restart" /\ At(t, "sw_ret") /\ ~task[t].ok
        /\ built = 2 /\ application = None
        /\ \A u \in Tasks \ {t} : task[u].op # "restart"

(***************************************************************************)
(* C14.  Provider errors that are not retried.                             *)
(***************************************************************************)
IsFatalUpFailure(e) == IsUpFailure(e) /\ e.res \in {"api", "other"}
IsRetriedUpFailure(e) == IsUpFailure(e) /\ e.res \in {"timeout", "conn"}
IsDescriptive(e) ==
    IsFragment(e) /\ e.text \in {ApiErrorPrefix \o ErrStr, OtherErrorPrefix \o ErrStr}
IsBackoff(e) == e.kind = "sleep" /\ e.at = "backoff"
\* what the generator does: requests, stream errors, fragments, backoff sleeps
IsGenAct(e) == IsGenEntry(e) \/ IsBackoff(e)

\* C14: when a request or the stream fails with an APIError or with any
\* other exception, at whatever attempt and retry count, the generator yields
\* the one fragment that describes it and does nothing more: no request, no
\* notice, no fragment and no backoff sleep follow, and the generator is at
\* its end.  The retry count is left as it was.
C14_FatalErrorEndsStream ==
    \A r \in Relays :
        /\ Len(SelectSeq(log[r], IsDescriptive)) = Len(SelectSeq(log[r], IsFatalUpFailure))
        /\ Len(SelectSeq(log[r], IsDescriptive)) <= 1
        /\ \A i \in 1..Len(log[r]) :
            IsFatalUpFailure(log[r][i])
                => /\ i < Len(log[r])
                   /\ IsFragment(log[r][i + 1])
                   /\ log[r][i + 1].text =
                        (IF log[r][i].res = "api" THEN ApiErrorPrefix ELSE OtherErrorPrefix)
                            \o ErrStr
                   /\ \A j \in (i + 2)..Len(log[r]) : ~IsGenAct(log[r][j])
                   /\ gpc[r] \in {"broken", "finished"}
                   /\ retry_count[r] = Len(SelectSeq(log[r], IsRetriedUpFailure))
                   /\ retry_count[r] <= max_retries

\* an APIError at the third attempt, after two timeouts: the relay is over
\* and the description is the last thing the generator did
C14_Witness ==
    /\ pc[1] = "done" /\ gpc[1] = "finished"
    /\ retry_count[1] = 2
    /\ Len(Requests(1)) = 3 /\ Requests(1)[3].res = "api"
    /\ full_response[1] = TimeoutNotice \o TimeoutNotice \o ApiErrorPrefix \o ErrStr

(***************************************************************************)
(* C15.  Exceptions raised while a webhook request is handled.             *)
(***************************************************************************)
\* task t answers its request in this step
Answers(t) == task'[t] # task[t] /\ task'[t].pc = "idle"

\* C15: every POST /webhook is answered by the handler itself with 200, 400
\* or 500: a body that is not JSON with 400, every other exception raised
\* while handling it with 500, a missing application with 500 (or 400 when
\* the body is not JSON either), and only a processed update with 200.
C15_WebhookExceptionsAnswered ==
    [][\A t \in Tasks :
        (Answers(t) /\ task'[t].op = "webhook")
            => /\ task'[t].code \in {200, 400, 500}
               /\ task'[t].exc = "JSONDecodeError" <=> task'[t].code = 400
               /\ task'[t].exc \in {"HTTPException", "Exception"} => task'[t].code = 500
               /\ task'[t].exc = "none"
                    => \/ task'[t].code = 200 /\ At(t, "wh_proc")
                       \/ task'[t].code = 500 /\ At(t, "wh_json") /\ application = None
               /\ (At(t, "wh_json") /\ application = None) => task'[t].code \in {400, 500}
               /\ task'[t].code = 200 => At(t, "wh_proc")]_vars

\* one request was answered 400 for its body, another 500 for an exception
\* raised after the body was parsed
C15_Witness ==
    \E t, u \in Tasks :
        /\ At(t, "idle") /\ task[t].op = "webhook"
        /\ task[t].exc = "JSONDecodeError" /\ task[t].code = 400
        /\ At(u, "idle") /\ task[u].op = "webhook"
        /\ task[u].exc = "Exception" /\ task[u].code = 500
        /\ ~Unauthorized(task[u].hdr)

(***************************************************************************)
(* C16.  Webhook requests leave the session alone.                         *)
(***************************************************************************)
\* a step of the handling of a webhook request by task t: of the handler
\* itself, or of the relay it awaits
WebhookHandling(t) ==
    \/ task'[t] # task[t] /\ task'[t].op = "webhook"
    \/ At(t, "wh_proc") /\ <<pc[t], gpc[t], full_response[t], log[t]>>'
                                # <<pc[t], gpc[t], full_response[t], log[t]>>

\* C16: no step of the handling of a webhook request, refused, malformed or
\* valid, and no step of the relay a valid request runs, changes the bot's
\* application, its lock object, the state of any lock or the set of
\* initialized Applications, whatever a concurrent restart is doing.
C16_WebhookLeavesSession ==
    [][\A t \in Tasks :
        WebhookHandling(t)
            => <<application, shutdown_lock, locks, built, appInit>>' =
                    <<application, shutdown_lock, locks, built, appInit>>]_vars

\* a relay is at its final flush, with text, inside a webhook request, while
\* the shutdown of a concurrent restart has cleared the application
C16_Witness ==
    \E t, u \in Tasks :
        /\ At(t, "wh_proc") /\ task[t].op = "webhook"
        /\ pc[t] = "flush" /\ full_response[t] # ""
        /\ task[u].op = "restart" /\ At(u, "rs_init")
        /\ application = None /\ task[t].app # None

(***************************************************************************)
(* C17.  The edit target of a relay.                                       *)
(***************************************************************************)
IsSend(e) == e.kind = "reply"
Sends(r) == SelectSeq(log[r], IsSend)

\* the first downstream call is the send of the placeholder, which binds the
\* target when it succeeds and ends the relay when it fails; the target is
\* never unbound or rebound
TargetBoundOnce(r) ==
    /\ Calls(r) # <<>>
        => /\ Calls(r)[1].kind = "reply" /\ Calls(r)[1].at = "start"
           /\ Calls(r)[1].res = "ok"
                => (Bound(r) /\ processing_message[r] = Calls(r)[1].handle)
           /\ Calls(r)[1].res # "ok"
                => (~Bound(r) /\ Len(Calls(r)) = 1 /\ pc[r] = "raised")
    /\ Calls(r) = <<>> => ~Bound(r)

\* C17 as stated: every downstream call after the first is an edit of the
\* bound message, and a relay without downstream failure sends one message.
C17_EveryLaterPublishIsEdit ==
    \A r \in Relays :
        /\ TargetBoundOnce(r)
        /\ \A i \in 2..Len(Calls(r)) :
            /\ Calls(r)[i].kind = "edit"
            /\ Calls(r)[i].handle = processing_message[r]
        /\ NoDownFailure(r) => Len(Sends(r)) <= 1

\* C17 amended: every downstream call after the first is an edit of the
\* bound message, except the one fallback send that directly follows a failed
\* final edit: that one sends the text as a new message, is the relay's last
\* call, and does not rebind the target.  A relay without downstream failure
\* sends exactly one message, its placeholder.
C17_LaterPublishIsEditOrFallback ==
    \A r \in Relays :
        /\ TargetBoundOnce(r)
        /\ \A i \in 2..Len(Calls(r)) :
            \/ /\ Calls(r)[i].kind = "edit"
               /\ Calls(r)[i].handle = processing_message[r]
            \/ /\ IsFallback(Calls(r)[i])
               /\ i = Len(Calls(r))
               /\ IsFlush(Calls(r)[i - 1]) /\ Calls(r)[i - 1].res # "ok"
               /\ Calls(r)[i].handle # processing_message[r]
               /\ pc[r] = "done"
        /\ Len(Sends(r)) <= 2
        /\ (NoDownFailure(r) /\ Calls(r) # <<>>) => Len(Sends(r)) = 1

\* the final edit failed and the fallback created a second message, after a
\* periodic publish into the placeholder; the target is still the placeholder
C17_Witness ==
    /\ pc[1] = "done" /\ processing_message[1] = 1
    /\ Len(messages) = 2
    /\ Len(Sends(1)) = 2 /\ Sends(1)[2].handle = 2
    /\ \E i \in 1..Len(log[1]) : log[1][i].at = "publish" /\ log[1][i].res = "ok"

(***************************************************************************)
(* C18.  The publish boundary.                                             *)
(***************************************************************************)
\* the accumulated length after the fragments logged up to entry i
LengthUpTo(r, i) == Len(Concat(FragmentsUpTo(r, i)))

\* C18 as stated: whenever a fragment takes the accumulated length across a
\* multiple of 20 (the quotient by 20 grows), the relay's next step is the
\* periodic edit with the text accumulated so far.
C18_PublishOnCrossing ==
    \A r \in Relays : \A i \in 1..Len(log[r]) :
        (/\ IsFragment(log[r][i])
         /\ LengthUpTo(r, i) \div PublishModulus > LengthUpTo(r, i - 1) \div PublishModulus)
            => /\ i = Len(log[r]) => pc[r] = "publish"
               /\ i < Len(log[r])
                    => /\ log[r][i + 1].kind = "edit" /\ log[r][i + 1].at = "publish"
                       /\ log[r][i + 1].text = Concat(FragmentsUpTo(r, i))

(***************************************************************************)
(* C19.  The retry ceiling.                                                *)
(***************************************************************************)
\* C19: whatever mix of timeouts and connection errors happens, at the
\* request or while streaming, the generator makes at most max_retries + 1 = 4
\* requests; retry_count counts the failures of both kinds together and is
\* never reset; and a generator that is being iterated reaches its end.
C19_AtMostFourAttempts ==
    /\ [](\A r \in Relays :
            /\ Len(Requests(r)) <= max_retries + 1
            /\ retry_count[r] = Len(SelectSeq(log[r], IsRetriedUpFailure))
            /\ retry_count[r] <= max_retries + 1
            /\ retry_count[r] = max_retries + 1 => gpc[r] \in {"exhausted", "finished"}
            /\ Len(Requests(r)) <= retry_count[r] + 1)
    /\ [][\A r \in Relays : retry_count'[r] >= retry_count[r]]_vars
    /\ (pc[1] = "stream_next") ~> (gpc[1] = "finished")

\* four requests, failed by a timeout, a connection error while streaming,
\* a connection error and a timeout: the generator is over
C19_Witness ==
    /\ gpc[1] = "finished" /\ retry_count[1] = max_retries + 1
    /\ Len(Requests(1)) = 4
    /\ UpFailures(1)[1].res = "timeout" /\ UpFailures(1)[2].res = "conn"
    /\ UpFailures(1)[2].kind = "error"
    /\ UpFailures(1)[3].res = "conn" /\ UpFailures(1)[4].res = "timeout"

(***************************************************************************)
(* C20.  Notice, backoff sleep, retry.                                     *)
(***************************************************************************)
\* what the generator of relay r did, in order
GenActs(r) == SelectSeq(log[r], IsGenAct)
\* the requests among the first i things the generator did
RequestsUpTo(r, i) == Len(SelectSeq(SubSeq(GenActs(r), 1, i), IsRequest))
\* 2^n
RECURSIVE Pow2(_)
Pow2(n) == IF n = 0 THEN 1 ELSE 2 * Pow2(n - 1)

\* C20: the k-th retry (the request after the first k) comes directly after
\* a backoff sleep of 2^(k-1) seconds, which comes directly after a notice
\* fragment, which comes directly after the timeout or connection failure it
\* reports; the delay doubles whichever of the two kinds failed.
C20_NoticeThenBackoffThenRetry ==
    \A r \in Relays : \A i \in 2..Len(GenActs(r)) :
        LET g == GenActs(r)
            k == RequestsUpTo(r, i - 1) IN
        /\ IsRequest(g[i])
            => /\ i >= 4
               /\ IsBackoff(g[i - 1]) /\ g[i - 1].ms = Pow2(k - 1) * 1000
               /\ IsNotice(g[i - 2])
               /\ IsRetriedUpFailure(g[i - 3])
               /\ g[i - 2].text = IF g[i - 3].res = "timeout" THEN TimeoutNotice ELSE ConnNotice
               /\ k <= max_retries
        /\ IsBackoff(g[i]) => IsNotice(g[i - 1])
        /\ IsNotice(g[i]) => IsRetriedUpFailure(g[i - 1])

\* three retries after a timeout, a connection error and a timeout, with
\* sleeps of 1, 2 and 4 seconds; the last request opened its stream
C20_Witness ==
    /\ Len(Requests(1)) = 4 /\ Requests(1)[4].res = "open"
    /\ Requests(1)[1].res = "timeout" /\ Requests(1)[2].res = "conn"
    /\ Requests(1)[3].res = "timeout"
    /\ retry_delay[1] = 8
    /\ Len(SelectSeq(log[1], IsBackoff)) = 3
    /\ SelectSeq(log[1], IsBackoff)[3].ms = 4000

(***************************************************************************)
(* C21.  The pause after a periodic publish.                               *)
(***************************************************************************)
IsPeriodicAttempt(e) == e.kind = "edit" /\ e.at = "publish"
IsSleep(e) == e.kind = "sleep"

\* C21 as stated: between a periodic publish attempt, whatever its outcome,
\* and the next fragment the relay consumes, there is a sleep.
C21_PauseAfterEveryPublish ==
    \A r \in Relays : \A i \in 1..Len(log[r]) : \A j \in (i + 1)..Len(log[r]) :
        (IsPeriodicAttempt(log[r][i]) /\ IsFragment(log[r][j]))
            => \E k \in (i + 1)..(j - 1) : IsSleep(log[r][k])

(***************************************************************************)
(* C22.  A stream that fails after it has yielded fragments.               *)
(***************************************************************************)
IsStreamFailure(e) == e.kind = "error" /\ e.res \in {"timeout", "conn"}
\* what step added to the log of relay r
Added(r) == SubSeq(log'[r], Len(log[r]) + 1, Len(log'[r]))

\* C22: no step takes a fragment back: the accumulated text only grows, by
\* the fragments the step yields, so that it is always the concatenation of
\* all the fragments yielded, those of failed attempts included; and a
\* timeout or connection error of the stream is followed by its notice, the
\* backoff sleep and a new request (while retries are left), whose fragments
\* come after the notice.
C22_FailedAttemptKept ==
    /\ [][\A r \in Relays :
            /\ Len(log'[r]) >= Len(log[r])
            /\ SubSeq(log'[r], 1, Len(log[r])) = log[r]
            /\ full_response'[r] =
                full_response[r] \o Concat(Texts(SelectSeq(Added(r), IsFragment)))]_vars
    /\ [](\A r \in Relays :
            /\ full_response[r] = Concat(Fragments(r))
            /\ \A i \in 1..Len(GenActs(r)) :
                LET g == GenActs(r) IN
                (IsStreamFailure(g[i]) /\ retry_count[r] <= max_retries)
                    => /\ i < Len(g) /\ IsNotice(g[i + 1])
                       /\ i + 2 <= Len(g) => IsBackoff(g[i + 2])
                       /\ i + 3 <= Len(g) => IsRequest(g[i + 3])
                       /\ i + 2 = Len(g) => gpc[r] = "attempt"
                       /\ i + 1 = Len(g) => gpc[r] = "backoff")

\* a stream timed out after the chunk "Hi"; the retry streamed " there":
\* the text is the first chunk, the notice, the second chunk
C22_Witness ==
    /\ gpc[1] = "finished" /\ pc[1] = "done"
    /\ Len(Requests(1)) = 2
    /\ Len(UpFailures(1)) = 1 /\ UpFailures(1)[1].kind = "error"
    /\ full_response[1] = "Hi" \o TimeoutNotice \o " there"
    /\ messages[processing_message[1]] = full_response[1]

(***************************************************************************)
(* C23.  What setup_webhook returns.                                       *)
(***************************************************************************)
\* no other task has made a call: task t is the only caller so far
LoneCaller(t) == \A u \in Tasks \ {t} : task[u].op = "none"

Immediate == {"status", "webhook", "set_webhook", "remove_webhook"}

\* task t answers a GET /status in this step: a call was made, t holds the
\* response of a /status, no other task moved, and, when t's record is what
\* it was (the same answer as to its last query), no other task can have
\* repeated a call of its own
AnswersStatus(t) ==
    /\ opsLeft' = opsLeft - 1
    /\ At(t, "idle") /\ task'[t].pc = "idle" /\ task'[t].op = "status"
    /\ \A u \in Tasks \ {t} : task'[u] = task[u]
    /\ task'[t] = task[t]
        => \A u \in Tasks \ {t} : ~(At(u, "idle") /\ task[u].op \in Immediate)

\* C24: the connected field of every /status response says whether the bot
\* has an application at the time of the query, whatever bot_connected held
\* before and whether or not a webhook is registered; the query overwrites
\* bot_connected with that value and changes nothing of the session.
C24_StatusReportsApplication ==
    [][\A t \in Tasks :
        AnswersStatus(t)
            => /\ task'[t].connected = (application # None)
               /\ bot_connected' = (application # None)
               /\ task'[t].code = 200
               /\ <<application, webhookSet, appInit>>' = <<application, webhookSet, appInit>>]_vars

\* after /remove-webhook the session exists without a registered webhook,
\* and /status has answered connected = true
C24_Witness ==
    \E t, u \in Tasks :
        /\ At(t, "idle") /\ task[t].op = "status" /\ task[t].connected
        /\ At(u, "idle") /\ task[u].op = "remove_webhook" /\ task[u].code = 200
        /\ application # None /\ ~webhookSet /\ bot_connected
        /\ opsLeft = 0

============================================================================
